---- MODULE Spec2Model ----
(***************************************************************************)
(* Model of course_planner/run_agent.py.                                   *)
(*                                                                         *)
(* Three components of the script are modelled, each with its own          *)
(* specification over the shared variables:                                *)
(*   SpecExec   ComposioWrapper.execute_tool (lines 79-113)                *)
(*   SpecParse  parse_lessons (lines 149-179)                              *)
(*   SpecSched  the calendar scheduling loop of main (lines 390-410)       *)
(* Spec is their union: a run exercises exactly one component.            *)
(*                                                                         *)
(* Python values are modelled as tagged records [t |-> type, s |-> parts]  *)
(* so that None, booleans, strings, lists and mappings stay distinct.      *)
(* Strings of the document text are sequences of symbols: a symbol is an   *)
(* atomic run of characters (the keyword "Week", a digit run, a separator, *)
(* a space, a word).                                                       *)
(***************************************************************************)
EXTENDS Integers, Sequences, FiniteSets, TLC

VARIABLES
    comp,        \* which component this run exercises: "exec", "parse", "sched"
    pc,          \* position inside the component
    \* ---- execute_tool ----
    idx,         \* index into forms of the strategy to try next (1-based)
    attempts,    \* the local list attempts
    last_exc,    \* the local last_exc
    result,      \* the returned {"ok", "data", "error"} envelope
    resp,        \* the value the remote call returned (when it returned)
    log,         \* history: one entry per invoked strategy, with what it did
    \* ---- parse_lessons ----
    text,        \* the argument text, as a sequence of raw lines
    max_lessons, \* the argument max_lessons
    lessons,     \* the local list lessons / the returned list
    usedFallback,\* history: the equal-chunk branch (lines 169-178) ran
    \* ---- scheduling loop of main ----
    start_date,  \* START_DATE
    start_time,  \* START_TIME as <<hh, mm>>
    timezone,    \* TIMEZONE
    now,         \* what datetime.datetime.now() returns
    sched,       \* the lessons enumerated by the loop (titles)
    dt0,         \* the local dt0
    events,      \* history: arguments of each create_calendar_event call
    \* ---- artifact resolution of main ----
    dl_data,     \* the local dl_data: the payload of the download response
    fs,          \* the files on disk, as absolute paths
    listing,     \* the order in which the filesystem lists directory entries
    local_path,  \* the local local_path
    tried,       \* history: the strategies that ran, with what each produced
    ending,      \* how resolution ended: "found", "notfound", "crash"
    \* ---- connection snapshot and linking of main ----
    snapshot,    \* the connections file as it was when the run started
    stored,      \* the connections file now
    connections, \* the local connections
    user_id,     \* the local user_id
    env_user_id, \* COMPOSIO_USER_ID of the environment ("" when unset)
    auth_configs,\* the services whose *_AUTH_CONFIG_ID is set
    svc_idx,     \* which of the three linking steps is next (1-based)
    decisions,   \* history: one entry per linking step that decided
    exit_status, \* "run", "exit0", "exit1" (sys.exit(1)) or "traceback"
    \* ---- pipeline of main ----
    notion_db,   \* whether NOTION_DATABASE_ID is set
    start_cfg,   \* START_DATE / START_TIME: "unset", "valid" or "invalid"
    plan,        \* len(lessons) after parse_lessons
    steps        \* history: the pipeline steps taken, with their outcomes

vars == <<comp, pc, idx, attempts, last_exc, result, resp, log,
          text, max_lessons, lessons, usedFallback,
          start_date, start_time, timezone, now, sched, dt0, events,
          dl_data, fs, listing, local_path, tried, ending,
          snapshot, stored, connections, user_id, env_user_id, auth_configs,
          svc_idx, decisions, exit_status,
          notion_db, start_cfg, plan, steps>>

execVars == <<idx, attempts, last_exc, result, resp, log>>
parseVars == <<text, max_lessons, lessons, usedFallback>>
schedVars == <<start_date, start_time, timezone, now, sched, dt0, events>>
resolveVars == <<dl_data, fs, listing, local_path, tried, ending>>
linkVars == <<snapshot, stored, connections, user_id, env_user_id, auth_configs,
              svc_idx, decisions, exit_status>>
mainVars == <<notion_db, start_cfg, plan, steps>>
restVars == <<resolveVars, linkVars, mainVars>>

(***************************************************************************)
(* Python values                                                           *)
(***************************************************************************)
PyNone == [t |-> "NoneType", s |-> <<>>]
PyTrue == [t |-> "bool", s |-> <<"True">>]
PyFalse == [t |-> "bool", s |-> <<"False">>]
PyStr(parts) == [t |-> "str", s |-> parts]
PyEmptyList == [t |-> "list", s |-> <<>>]
PyPayload == [t |-> "dict", s |-> <<"files">>]
\* the response value itself (the mapping or the object the remote returned)
WholeResp == [t |-> "response", s |-> <<>>]
\* marker of a key / attribute that the response does not carry
Missing == [t |-> "MISSING", s |-> <<>>]

\* Python truthiness, as used by the `or` of line 103
Truthy(v) ==
    CASE v.t = "NoneType" -> FALSE
      [] v.t = "bool" -> v = PyTrue
      [] v.t \in {"list", "dict", "str"} -> v.s # <<>>
      [] OTHER -> TRUE

PyOr(a, b) == IF Truthy(a) THEN a ELSE b

(***************************************************************************)
(* ComposioWrapper.execute_tool                                            *)
(***************************************************************************)
\* the six calling conventions of the list forms, in list order
forms == << "kw(slug, user_id, arguments)",
            "kw(slug, arguments, user_id)",
            "pos(tool_slug, user_id, arguments)",
            "pos(tool_slug, arguments, user_id)",
            "pos(user_id, tool_slug, arguments)",
            "kw(slug, args, user_id)" >>

\* Values the remote side may return: a mapping or an attribute object, each
\* facet present or missing.
Responses ==
    [ kind : {"mapping", "object"},
      successful : {Missing, PyTrue, PyFalse},
      data : {Missing, PyNone, PyEmptyList, PyPayload},
      error : {Missing, PyNone, PyStr(<<"remote reported failure">>)} ]

NoResp == [kind |-> "none", successful |-> Missing, data |-> Missing, error |-> Missing]

\* What invoking one form can do.  A TypeError is raised either by the call
\* binding (the callee does not accept this convention; the remote operation
\* never runs) or from inside the remote operation after the call was accepted.
Outcomes == {"signature_mismatch", "remote_type_error", "remote_error", "returned"}

\* str(te) / str(e) of the exception raised by form i
MismatchDiag(i) == PyStr(<<"execute() got unexpected arguments", forms[i]>>)
RemoteTypeDiag(i) == PyStr(<<"unsupported operand inside remote operation", forms[i]>>)
RemoteErrDiag(i) == PyStr(<<"remote operation failed", forms[i]>>)

\* resp.get(key, default) on a mapping response
DictGet(r, key, default) == IF r[key] = Missing THEN default ELSE r[key]
\* getattr(resp, key, default) on an object response
GetAttr(r, key, default) == IF r[key] = Missing THEN default ELSE r[key]

\* lines 96-100
NormalizeMapping(r) ==
    [ ok |-> DictGet(r, "successful", PyTrue),
      data |-> DictGet(r, "data", WholeResp),
      error |-> DictGet(r, "error", PyNone) ]

\* lines 101-105
NormalizeObject(r) ==
    [ ok |-> GetAttr(r, "successful", PyTrue),
      data |-> PyOr(GetAttr(r, "data", PyNone), WholeResp),
      error |-> GetAttr(r, "error", PyNone) ]

\* the isinstance(resp, dict) dispatch of line 96
NormalizeResponse(r) ==
    IF r.kind = "mapping" THEN NormalizeMapping(r) ELSE NormalizeObject(r)

\* attempts.append(("TypeError", str(te))), line 108
AppendAttempt_Overwrite(att, te) == << <<"TypeError">> \o te.s >>
AppendAttempt(att, te) == Append(att, <<"TypeError">> \o te.s)

\* str(attempts): the entries one after the other
RECURSIVE RenderAttempts(_)
RenderAttempts(att) ==
    IF att = <<>> THEN <<>>
    ELSE <<"(">> \o Head(att) \o <<")">> \o RenderAttempts(Tail(att))

\* line 112: the envelope of a fatal (non-TypeError) exception
FatalResult(e) ==
    [ ok |-> PyFalse, data |-> PyNone,
      error |-> PyStr(e.s \o <<"\n", "Traceback (most recent call last)">>) ]

\* line 113: the envelope when the list is exhausted
ExhaustedResult(last, att) ==
    [ ok |-> PyFalse, data |-> PyNone,
      error |-> PyStr(<<"All execute attempts failed. Last TypeError: ">> \o last.s
                      \o <<"; attempts: ">> \o RenderAttempts(att)) ]

NoResult == [ok |-> Missing, data |-> Missing, error |-> Missing]

LogEntry(i, outcome, exc, ran, msg, ret) ==
    [form |-> i, outcome |-> outcome, exc |-> exc, ran |-> ran, msg |-> msg, ret |-> ret]

\* the for loop moving on to the next form (line 93, `continue` of line 109)
NextForm_Skip(i) == i + 2
NextForm(i) == i + 1

InitExecVars ==
    /\ idx = 0
    /\ attempts = <<>>
    /\ last_exc = PyNone
    /\ result = NoResult
    /\ resp = NoResp
    /\ log = <<>>

\* lines 83-92: the locals of a call
ExecCall ==
    /\ comp = "exec" /\ pc = "idle"
    /\ attempts' = <<>>
    /\ last_exc' = PyNone
    /\ idx' = 1
    /\ pc' = "loop"
    /\ UNCHANGED <<comp, result, resp, log, parseVars, schedVars, restVars>>

\* lines 106-109: except TypeError
OnTypeError(outcome, ran, te) ==
    /\ last_exc' = te
    /\ attempts' = AppendAttempt(attempts, te)
    /\ log' = Append(log, LogEntry(idx, outcome, "TypeError", ran, te, NoResp))
    /\ idx' = NextForm(idx)
    /\ UNCHANGED <<comp, pc, result, resp, parseVars, schedVars, restVars>>

\* f() raises TypeError because the callee rejects the calling convention
AttemptSignatureMismatch ==
    /\ comp = "exec" /\ pc = "loop" /\ idx \in DOMAIN forms
    /\ OnTypeError("signature_mismatch", FALSE, MismatchDiag(idx))

\* f() is accepted, the remote operation runs and raises a TypeError
AttemptRemoteTypeError ==
    /\ comp = "exec" /\ pc = "loop" /\ idx \in DOMAIN forms
    /\ OnTypeError("remote_type_error", TRUE, RemoteTypeDiag(idx))

\* lines 110-112: f() raises any other Exception
AttemptRemoteError_Swallow ==
    /\ comp = "exec" /\ pc = "loop" /\ idx \in DOMAIN forms
    /\ log' = Append(log, LogEntry(idx, "remote_error", "Exception", TRUE,
                                   RemoteErrDiag(idx), NoResp))
    /\ idx' = NextForm(idx)
    /\ UNCHANGED <<comp, pc, attempts, last_exc, result, resp, parseVars, schedVars, restVars>>
AttemptRemoteError ==
    /\ comp = "exec" /\ pc = "loop" /\ idx \in DOMAIN forms
    /\ log' = Append(log, LogEntry(idx, "remote_error", "Exception", TRUE,
                                   RemoteErrDiag(idx), NoResp))
    /\ result' = FatalResult(RemoteErrDiag(idx))
    /\ pc' = "done"
    /\ UNCHANGED <<comp, idx, attempts, last_exc, resp, parseVars, schedVars, restVars>>

\* lines 95-105: f() returns, the value is normalized and returned
AttemptReturns ==
    /\ comp = "exec" /\ pc = "loop" /\ idx \in DOMAIN forms
    /\ \E r \in Responses :
         /\ resp' = r
         /\ log' = Append(log, LogEntry(idx, "returned", "none", TRUE, PyNone, r))
         /\ result' = NormalizeResponse(r)
    /\ pc' = "done"
    /\ UNCHANGED <<comp, idx, attempts, last_exc, parseVars, schedVars, restVars>>

\* line 113: the loop ran off the end of forms
ExecExhausted ==
    /\ comp = "exec" /\ pc = "loop" /\ idx \notin DOMAIN forms
    /\ result' = ExhaustedResult(last_exc, attempts)
    /\ pc' = "done"
    /\ UNCHANGED <<comp, idx, attempts, last_exc, resp, log, parseVars, schedVars, restVars>>

NextExec ==
    \/ ExecCall
    \/ AttemptSignatureMismatch
    \/ AttemptRemoteTypeError
    \/ AttemptRemoteError
    \/ AttemptReturns
    \/ ExecExhausted

(***************************************************************************)
(* parse_lessons                                                           *)
(***************************************************************************)
MAX_LESSONS == 12
MaxLines == 3
MaxCount == 3

\* character classes of the two regular expressions (re.I makes the keyword
\* case-insensitive)
IsSpace(c) == c = " "
IsWeekWord(c) == c \in {"Week", "week", "WEEK"}
IsDigits(c) == c \in {"1", "2", "3", "4"}
IsSep(c) == c \in {":", "-"}

\* raw lines a document may hold
LineForms ==
    { <<" ">>,
      <<"Week", " ", "1", ":", " ", "Intro">>,
      <<"Week", " ", "2", ":", " ", "Loops">>,
      <<" ", "WEEK", "3", " ">>,
      <<"Hello">>,
      <<"World">>,
      <<" ", "see", " ", "Week", " ", "4", " ", "notes", " ">> }

RECURSIVE SeqsUpTo(_, _)
SeqsUpTo(S, n) ==
    IF n = 0 THEN { <<>> }
    ELSE LET shorter == SeqsUpTo(S, n - 1)
         IN shorter \cup { Append(q, x) : q \in shorter, x \in S }

\* the document of the end-to-end scenario: "Week 1: Intro", "Hello",
\* "Week 2: Loops", "World"
ScenarioText ==
    << <<"Week", " ", "1", ":", " ", "Intro">>, <<"Hello">>,
       <<"Week", " ", "2", ":", " ", "Loops">>, <<"World">> >>

\* the documents explored: every document of at most MaxLines lines, and the
\* scenario document
Texts == SeqsUpTo(LineForms, MaxLines) \cup { ScenarioText }

Min(a, b) == IF a < b THEN a ELSE b
Max(a, b) == IF a > b THEN a ELSE b

\* first index >= i of str that does not satisfy the class (Len + 1 if none)
RECURSIVE SkipSpaces(_, _)
SkipSpaces(str, i) ==
    IF i <= Len(str) /\ IsSpace(str[i]) THEN SkipSpaces(str, i + 1) ELSE i
RECURSIVE SkipDigits(_, _)
SkipDigits(str, i) ==
    IF i <= Len(str) /\ IsDigits(str[i]) THEN SkipDigits(str, i + 1) ELSE i
RECURSIVE LastNonSpace(_, _)
LastNonSpace(str, i) ==
    IF i >= 1 /\ IsSpace(str[i]) THEN LastNonSpace(str, i - 1) ELSE i

\* str.strip()
Strip(str) == SubSeq(str, SkipSpaces(str, 1), LastNonSpace(str, Len(str)))

\* " ".join(parts)
RECURSIVE JoinSp(_)
JoinSp(parts) ==
    IF parts = <<>> THEN <<>>
    ELSE IF Len(parts) = 1 THEN parts[1]
    ELSE parts[1] \o <<" ">> \o JoinSp(Tail(parts))

\* str.split(): the maximal runs of non-space symbols
RECURSIVE WordEnd(_, _)
WordEnd(str, i) ==
    IF i <= Len(str) /\ ~IsSpace(str[i]) THEN WordEnd(str, i + 1) ELSE i
RECURSIVE SplitFrom(_, _)
SplitFrom(str, i) ==
    LET b == SkipSpaces(str, i)
    IN IF b > Len(str) THEN <<>>
       ELSE LET e == WordEnd(str, b)
            IN <<SubSeq(str, b, e - 1)>> \o SplitFrom(str, e)
Split(str) == SplitFrom(str, 1)

\* text.split() of line 170: a line break is whitespace too
RECURSIVE TextWords(_)
TextWords(t) == IF t = <<>> THEN <<>> ELSE Split(Head(t)) \o TextWords(Tail(t))

\* line 150: [ln.strip() for ln in text.splitlines() if ln.strip()]
RECURSIVE StrippedLines(_)
StrippedLines(t) ==
    IF t = <<>> THEN <<>>
    ELSE (IF Strip(Head(t)) # <<>> THEN <<Strip(Head(t))>> ELSE <<>>)
         \o StrippedLines(Tail(t))

\* end of the match of ^(Week\s*\d+) in a line, 0 when it does not match
WeekPrefixEnd(line) ==
    IF line # <<>> /\ IsWeekWord(line[1])
    THEN LET p == SkipSpaces(line, 2)
         IN IF p <= Len(line) /\ IsDigits(line[p]) THEN SkipDigits(line, p) - 1 ELSE 0
    ELSE 0

\* line 162: re.match(r'^(Week\s*\d+)', line, re.I)
StartsHeader(line) == WeekPrefixEnd(line) > 0

\* lines 154-157: re.match(r'^(Week\s*\d+)\s*[:\-]?\s*(.*)', line, re.I),
\* group(1) and group(2).strip()
MatchHeader(line) ==
    LET q == WeekPrefixEnd(line)
        r1 == SkipSpaces(line, q + 1)
        r2 == IF r1 <= Len(line) /\ IsSep(line[r1]) THEN r1 + 1 ELSE r1
        r3 == SkipSpaces(line, r2)
    IN [ ok |-> q > 0,
         header |-> SubSeq(line, 1, q),
         rem |-> Strip(SubSeq(line, r3, Len(line))) ]

\* lines 161-164: the index at which the inner while loop stops
BodyEnd_ToEnd(lines, j) == Len(lines) + 1
RECURSIVE BodyEnd(_, _)
BodyEnd(lines, j) ==
    IF j <= Len(lines) /\ ~StartsHeader(lines[j]) THEN BodyEnd(lines, j + 1) ELSE j

\* lines 152-168: the outer while loop from index i on
RECURSIVE ScanFrom(_, _, _)
ScanFrom(lines, i, acc) ==
    IF i > Len(lines) THEN acc
    ELSE LET m == MatchHeader(lines[i])
         IN IF m.ok
            THEN LET j == BodyEnd(lines, i + 1)
                     desc_parts == (IF m.rem # <<>> THEN <<m.rem>> ELSE <<>>)
                                   \o SubSeq(lines, i + 1, j - 1)
                 IN ScanFrom(lines, j,
                             Append(acc, [title |-> m.header,
                                          body |-> Strip(JoinSp(desc_parts))]))
            ELSE ScanFrom(lines, i + 1, acc)

\* words[start:end] with 0-based bounds, clipped as Python slices are
PySlice(seq, start, end) == SubSeq(seq, start + 1, Min(end, Len(seq)))

\* line 177: the end boundary of chunk k
ChunkEnd_NoRemainder(k, chunk, n, total) == k * chunk + chunk
ChunkEnd(k, chunk, n, total) == IF k < n - 1 THEN k * chunk + chunk ELSE total

\* lines 174-178: the equal-chunk records
Chunks(words, n) ==
    LET total == Len(words)
        chunk == Max(total \div n, 1)
    IN [ i \in 1..n |->
           [ title |-> <<"Week", " ", ToString(i)>>,
             body |-> JoinSp(PySlice(words, (i - 1) * chunk,
                                     ChunkEnd(i - 1, chunk, n, total))) ] ]

\* line 179: lessons[:max_lessons]
Truncate_None(ls, n) == ls
Truncate(ls, n) == SubSeq(ls, 1, Min(n, Len(ls)))

InitParseVars ==
    /\ text = <<>>
    /\ max_lessons = MAX_LESSONS
    /\ lessons = <<>>
    /\ usedFallback = FALSE

\* lines 150-168
ParseScan ==
    /\ comp = "parse" /\ pc = "start"
    /\ lessons' = ScanFrom(StrippedLines(text), 1, <<>>)
    /\ pc' = IF lessons' = <<>> THEN "fallback" ELSE "truncate"
    /\ UNCHANGED <<comp, text, max_lessons, usedFallback, execVars, schedVars, restVars>>

\* lines 169-173: no lessons and no words
ParseNoWords ==
    /\ comp = "parse" /\ pc = "fallback"
    /\ Len(TextWords(text)) = 0
    /\ lessons' = <<>>
    /\ pc' = "done"
    /\ UNCHANGED <<comp, text, max_lessons, usedFallback, execVars, schedVars, restVars>>

\* lines 169-178: no lessons, the words are cut into max_lessons chunks
ParseFallback ==
    /\ comp = "parse" /\ pc = "fallback"
    /\ Len(TextWords(text)) # 0
    /\ lessons' = Chunks(TextWords(text), max_lessons)
    /\ usedFallback' = TRUE
    /\ pc' = "truncate"
    /\ UNCHANGED <<comp, text, max_lessons, execVars, schedVars, restVars>>

\* line 179
ParseReturn ==
    /\ comp = "parse" /\ pc = "truncate"
    /\ lessons' = Truncate(lessons, max_lessons)
    /\ pc' = "done"
    /\ UNCHANGED <<comp, text, max_lessons, usedFallback, execVars, schedVars, restVars>>

NextParse ==
    \/ ParseScan
    \/ ParseNoWords
    \/ ParseFallback
    \/ ParseReturn

(***************************************************************************)
(* The calendar scheduling loop of main                                    *)
(***************************************************************************)
MaxSched == 3

\* datetime.datetime values (naive: no tzinfo)
DateTime(y, m, d, hh, mi, ss, us) ==
    [y |-> y, m |-> m, d |-> d, hh |-> hh, mi |-> mi, ss |-> ss, us |-> us]

\* values of START_DATE: unset, a bare date, or a full timestamp
StartDates ==
    { [kind |-> "unset", at |-> DateTime(1, 1, 1, 0, 0, 0, 0)],
      [kind |-> "date", at |-> DateTime(2024, 1, 8, 0, 0, 0, 0)],
      [kind |-> "date", at |-> DateTime(2024, 2, 26, 0, 0, 0, 0)],
      [kind |-> "date", at |-> DateTime(2023, 2, 22, 0, 0, 0, 0)],
      [kind |-> "date", at |-> DateTime(2023, 12, 25, 0, 0, 0, 0)],
      [kind |-> "datetime", at |-> DateTime(2024, 4, 29, 10, 30, 15, 0)] }

\* values datetime.datetime.now() may return
Nows == { DateTime(2024, 12, 30, 17, 45, 12, 250), DateTime(2023, 6, 28, 8, 5, 0, 0) }

\* values of START_TIME, as the pair int(hh), int(mm) of line 397
StartTimes == { <<9, 0>>, <<0, 0>>, <<23, 59>> }

TimeZones == { "UTC", "Asia/Kolkata" }

IsLeap(y) == (y % 4 = 0 /\ y % 100 # 0) \/ y % 400 = 0

DaysInMonth(y, m) ==
    IF m = 2 THEN (IF IsLeap(y) THEN 29 ELSE 28)
    ELSE IF m \in {4, 6, 9, 11} THEN 30 ELSE 31

\* the calendar day after dt, time of day kept
NextDay(dt) ==
    IF dt.d < DaysInMonth(dt.y, dt.m) THEN [dt EXCEPT !.d = dt.d + 1]
    ELSE IF dt.m < 12 THEN [dt EXCEPT !.d = 1, !.m = dt.m + 1]
    ELSE [dt EXCEPT !.d = 1, !.m = 1, !.y = dt.y + 1]

\* dt + datetime.timedelta(days=n)
RECURSIVE AddDays(_, _)
AddDays(dt, n) == IF n = 0 THEN dt ELSE AddDays(NextDay(dt), n - 1)

\* line 402: dt0 + datetime.timedelta(weeks=i)
AddWeeks_AsDays(dt, i) == AddDays(dt, i)
AddWeeks(dt, i) == AddDays(dt, 7 * i)

\* lines 390-396: fromisoformat(START_DATE), or now() when it is unset
Anchor(sd, nw) == IF sd.kind = "unset" THEN nw ELSE sd.at

\* line 398: dt0.replace(hour=hh, minute=mm, second=0, microsecond=0)
ReplaceTime(dt, st) == [dt EXCEPT !.hh = st[1], !.mi = st[2], !.ss = 0, !.us = 0]

\* line 403: event_dt.isoformat(): YYYY-MM-DDTHH:MM:SS, with a fraction only
\* when the microseconds are not zero
IsoFormat(dt) ==
    [ date |-> <<dt.y, dt.m, dt.d>>,
      time |-> <<dt.hh, dt.mi, dt.ss>>,
      frac |-> IF dt.us = 0 THEN <<>> ELSE <<dt.us>> ]

\* the (title, desc) pairs main enumerates: titles only
LessonTitles(n) == [ k \in 1..n |-> <<"Week", " ", ToString(k)>> ]

NoDateTime == DateTime(1, 1, 1, 0, 0, 0, 0)

InitSchedVars ==
    /\ start_date = [kind |-> "unset", at |-> NoDateTime]
    /\ start_time = <<9, 0>>
    /\ timezone = "UTC"
    /\ now = NoDateTime
    /\ sched = <<>>
    /\ dt0 = NoDateTime
    /\ events = <<>>

\* lines 390-398
SchedAnchor ==
    /\ comp = "sched" /\ pc = "start"
    /\ dt0' = ReplaceTime(Anchor(start_date, now), start_time)
    /\ pc' = "loop"
    /\ UNCHANGED <<comp, start_date, start_time, timezone, now, sched, events,
                   execVars, parseVars, restVars>>

\* lines 401-410: one iteration of the loop, i = number of events so far
SchedEvent ==
    /\ comp = "sched" /\ pc = "loop"
    /\ Len(events) < Len(sched)
    /\ LET i == Len(events)
           event_dt == AddWeeks(dt0, i)
       IN events' = Append(events, [ start_datetime |-> IsoFormat(event_dt),
                                     timezone |-> timezone,
                                     summary |-> sched[i + 1] ])
    /\ UNCHANGED <<comp, pc, start_date, start_time, timezone, now, sched, dt0,
                   execVars, parseVars, restVars>>

\* line 412: the loop is over
SchedDone ==
    /\ comp = "sched" /\ pc = "loop"
    /\ Len(events) = Len(sched)
    /\ pc' = "done"
    /\ UNCHANGED <<comp, schedVars, execVars, parseVars, restVars>>

NextSched ==
    \/ SchedAnchor
    \/ SchedEvent
    \/ SchedDone

(***************************************************************************)
(* Artifact resolution of main (lines 289-357)                             *)
(***************************************************************************)
MaxFiles == 2

\* path strings: absolute or relative, and their components
Path(abs, parts) == [abs |-> abs, parts |-> parts]
\* local_path = None
NoPath == Path(FALSE, <<>>)
\* the working directory of the process
Cwd == <<"work">>
\* DOWNLOAD_DIR, default "./downloads"
DOWNLOAD_DIR == Path(FALSE, <<"downloads">>)
\* SYLLABUS_FILE_NAME, default "syllabus.pdf"
SYLLABUS_FILE_NAME == "syllabus.pdf"

\* values found in a download payload: [t |-> type, p |-> the path a str or
\* bytes value spells, kids |-> the items of a dict or the elements of a list]
VNone == [t |-> "NoneType", p |-> NoPath, kids |-> <<>>]
VStr(path) == [t |-> "str", p |-> path, kids |-> <<>>]
VBytes(path) == [t |-> "bytes", p |-> path, kids |-> <<>>]
VInt == [t |-> "int", p |-> NoPath, kids |-> <<>>]
KV(k, n) == [k |-> k, n |-> n]
VDict(items) == [t |-> "dict", p |-> NoPath, kids |-> items]
VList(elems) == [t |-> "list", p |-> NoPath, kids |-> [i \in DOMAIN elems |-> KV("", elems[i])]]

Rel(name) == Path(FALSE, <<name>>)

\* download payloads: the value of dl_resp["data"] or {}
Payloads ==
    { VDict(<<>>),
      VDict(<<KV("path", VStr(Rel("syllabus.pdf")))>>),
      VDict(<<KV("file_path", VStr(Path(TRUE, <<"work", "downloads", "syllabus.pdf">>)))>>),
      VDict(<<KV("name", VStr(Rel("other.pdf")))>>),
      VDict(<<KV("id", VStr(Rel("f1"))),
              KV("files", VList(<<VDict(<<KV("location",
                                            VStr(Path(FALSE, <<"sub", "syllabus.pdf">>)))>>)>>))>>),
      VDict(<<KV("files", VList(<<VStr(Rel("other.pdf"))>>))>>),
      VDict(<<KV("result", VDict(<<KV("location", VStr(Rel("syllabus.pdf")))>>))>>),
      VDict(<<KV("file", VDict(<<KV("id", VStr(Rel("f1")))>>))>>),
      VDict(<<KV("name", VInt)>>),
      VDict(<<KV("file", VBytes(Rel("syllabus.pdf")))>>),
      VDict(<<KV("body", VStr(Rel("pdf text")))>>),
      VDict(<<KV("body", VBytes(Rel("pdf bytes")))>>),
      VDict(<<KV("body", VDict(<<KV("encoding", VStr(Rel("base64")))>>))>>),
      VDict(<<KV("path", VStr(Rel("missing.pdf"))), KV("body", VStr(Rel("pdf text")))>>),
      VList(<<VStr(Rel("other.pdf"))>>) }

\* files that may be on disk when resolution starts
FileCandidates ==
    { <<"work", "downloads", "syllabus.pdf">>,
      <<"work", "downloads", "other.pdf">>,
      <<"work", "downloads", "notes.txt">>,
      <<"work", "downloads", "sub", "syllabus.pdf">>,
      <<"work", "downloads", "a", "other.pdf">>,
      <<"work", "downloads", "a", "b", "deep.pdf">>,
      <<"work", "syllabus.pdf">> }

FileSets == { F \in SUBSET FileCandidates : Cardinality(F) <= MaxFiles }

\* the rank of an entry name in a directory listing
NameOrder == <<"a", "b", "deep.pdf", "notes.txt", "other.pdf", "sub", "syllabus.pdf">>
Rank(name) == CHOOSE i \in DOMAIN NameOrder : NameOrder[i] = name

IsPrefix(a, b) == Len(a) <= Len(b) /\ SubSeq(b, 1, Len(a)) = a

\* os.path.isabs / os.path.join(DOWNLOAD_DIR, v) / os.path.abspath
IsAbs(path) == path.abs
Join(dir, path) == IF path.abs THEN path ELSE Path(dir.abs, dir.parts \o path.parts)
AbsPath(path) == IF path.abs THEN path ELSE Path(TRUE, Cwd \o path.parts)

\* os.path.exists: a file, or a directory above a file, or the download
\* directory itself (ensure_dir created it, line 211)
Exists(files, path) ==
    LET a == AbsPath(path).parts
    IN \/ \E f \in files : IsPrefix(a, f)
       \/ IsPrefix(a, AbsPath(DOWNLOAD_DIR).parts)

\* name.lower().endswith(".pdf")
HasPdfExt(name) == name \in {"syllabus.pdf", "other.pdf", "deep.pdf"}
EndsWithPdf(path) == path.parts # <<>> /\ HasPdfExt(path.parts[Len(path.parts)])

\* truth value of a payload value
NodeTruthy(n) ==
    CASE n.t = "NoneType" -> FALSE
      [] n.t \in {"dict", "list"} -> n.kids # <<>>
      [] n.t \in {"str", "bytes"} -> n.p.parts # <<>>
      [] OTHER -> TRUE

\* dl_data.get(key)
RECURSIVE KidsGet(_, _)
KidsGet(kids, key) ==
    IF kids = <<>> THEN VNone
    ELSE IF Head(kids).k = key THEN Head(kids).n ELSE KidsGet(Tail(kids), key)
NodeGet(d, key) == IF d.t = "dict" THEN KidsGet(d.kids, key) ELSE VNone

\* line 295: the probed keys, in order
ProbeKeys == <<"file_path", "path", "local_path", "download_path", "file", "name">>

\* lines 295-306: the loop over the probed keys from key i on.  A truthy value
\* that is not a str makes os.path.isabs / os.path.join raise TypeError.
RECURSIVE Probe(_, _, _)
Probe(files, d, i) ==
    IF i > Len(ProbeKeys) THEN [lp |-> NoPath, crash |-> FALSE]
    ELSE LET val == NodeGet(d, ProbeKeys[i])
         IN IF ~NodeTruthy(val) THEN Probe(files, d, i + 1)
            ELSE IF val.t # "str" THEN [lp |-> NoPath, crash |-> TRUE]
            ELSE LET candidate == IF IsAbs(val.p) THEN val.p ELSE Join(DOWNLOAD_DIR, val.p)
                 IN IF Exists(files, candidate)
                    THEN [lp |-> AbsPath(candidate), crash |-> FALSE]
                    ELSE IF Exists(files, val.p)
                    THEN [lp |-> AbsPath(val.p), crash |-> FALSE]
                    ELSE Probe(files, d, i + 1)

\* lines 310-326: search_dict_for_path, over the items / elements from i on
RECURSIVE SearchKids(_, _, _)
SearchKids(files, obj, i) ==
    IF i > Len(obj.kids) THEN NoPath
    ELSE LET v == obj.kids[i].n
         IN IF obj.t = "dict"
            THEN IF /\ v.t = "str" /\ EndsWithPdf(v.p)
                    /\ (Exists(files, v.p) \/ Exists(files, Join(DOWNLOAD_DIR, v.p)))
                 THEN LET candidate == IF IsAbs(v.p) THEN v.p ELSE Join(DOWNLOAD_DIR, v.p)
                      IN IF Exists(files, candidate) THEN AbsPath(candidate)
                         ELSE SearchKids(files, obj, i + 1)
                 ELSE IF v.t \in {"dict", "list"}
                 THEN LET found == SearchKids(files, v, 1)
                      IN IF found # NoPath THEN found
                         ELSE SearchKids(files, obj, i + 1)
                 ELSE SearchKids(files, obj, i + 1)
            ELSE LET found == IF v.t \in {"dict", "list"}
                              THEN SearchKids(files, v, 1) ELSE NoPath
                 IN IF found # NoPath THEN found
                    ELSE SearchKids(files, obj, i + 1)

\* search_dict_for_path(dl_data), line 327
search_dict_for_path(files, obj) ==
    IF obj.t \in {"dict", "list"} THEN SearchKids(files, obj, 1) ELSE NoPath


\* the entries of a set of names in listing order
RECURSIVE Listed(_, _)
Listed(names, order) ==
    IF names = {} THEN <<>>
    ELSE LET first == CHOOSE n \in names :
                        \A m \in names : IF order = "asc" THEN Rank(n) <= Rank(m)
                                         ELSE Rank(n) >= Rank(m)
         IN <<first>> \o Listed(names \ {first}, order)

\* the files and the sub-directories directly inside directory dir
FilesIn(files, dir) == { f[Len(f)] : f \in { g \in files : IsPrefix(dir, g) /\ Len(g) = Len(dir) + 1 } }
DirsIn(files, dir) == { f[Len(dir) + 1] : f \in { g \in files : IsPrefix(dir, g) /\ Len(g) > Len(dir) + 1 } }

\* os.walk(top): the directories it yields, top-down
RECURSIVE Walk(_, _, _)
RECURSIVE WalkSubs(_, _, _, _)
Walk(files, dir, order) ==
    <<dir>> \o WalkSubs(files, dir, Listed(DirsIn(files, dir), order), order)
WalkSubs(files, dir, subs, order) ==
    IF subs = <<>> THEN <<>>
    ELSE Walk(files, dir \o <<Head(subs)>>, order)
         \o WalkSubs(files, dir, Tail(subs), order)

\* lines 333-341: the loop over the file names of one directory
RECURSIVE SweepFiles(_, _, _)
SweepFiles(names, root, lp) ==
    IF names = <<>> THEN lp
    ELSE LET fname == Head(names)
             candidate == Path(TRUE, root \o <<fname>>)
         IN IF fname = SYLLABUS_FILE_NAME THEN candidate
            ELSE IF HasPdfExt(fname) /\ lp = NoPath
            THEN SweepFiles(Tail(names), root, candidate)
            ELSE SweepFiles(Tail(names), root, lp)

\* lines 332-343: the loop over the directories of the walk
RECURSIVE SweepDirs(_, _, _, _)
SweepDirs(files, dirs, order, lp) ==
    IF dirs = <<>> THEN lp
    ELSE LET here == SweepFiles(Listed(FilesIn(files, Head(dirs)), order), Head(dirs), lp)
         IN IF here # NoPath THEN here
            ELSE SweepDirs(files, Tail(dirs), order, here)

\* lines 330-343
Sweep(files, order, lp) ==
    SweepDirs(files, Walk(files, AbsPath(DOWNLOAD_DIR).parts, order), order, lp)

\* the guard `if not local_path` of lines 309, 330 and 346
Unresolved_Always(lp) == TRUE
Unresolved(lp) == lp = NoPath

Ran(strategy, produced) == [strategy |-> strategy, produced |-> produced]

InitResolveVars ==
    /\ dl_data = VNone
    /\ fs = {}
    /\ listing = "asc"
    /\ local_path = NoPath
    /\ tried = <<>>
    /\ ending = "none"

\* lines 292-306: direct field probe
ResolveProbe ==
    /\ comp = "resolve" /\ pc = "probe"
    /\ LET r == Probe(fs, dl_data, 1)
       IN IF r.crash
          THEN /\ ending' = "crash" /\ pc' = "done"
               /\ UNCHANGED <<local_path, tried>>
          ELSE /\ local_path' = r.lp
               /\ tried' = Append(tried, Ran("probe", r.lp))
               /\ pc' = "search"
               /\ UNCHANGED ending
    /\ UNCHANGED <<comp, dl_data, fs, listing, execVars, parseVars, schedVars, linkVars, mainVars>>

\* lines 308-327: recursive structural search
ResolveSearch ==
    /\ comp = "resolve" /\ pc = "search"
    /\ IF Unresolved(local_path)
       THEN LET found == search_dict_for_path(fs, dl_data)
            IN /\ local_path' = found
               /\ tried' = Append(tried, Ran("search", found))
       ELSE UNCHANGED <<local_path, tried>>
    /\ pc' = "sweep"
    /\ UNCHANGED <<comp, dl_data, fs, listing, ending, execVars, parseVars, schedVars, linkVars, mainVars>>

\* lines 329-343: directory sweep
ResolveSweep ==
    /\ comp = "resolve" /\ pc = "sweep"
    /\ IF Unresolved(local_path)
       THEN LET found == Sweep(fs, listing, local_path)
            IN /\ local_path' = found
               /\ tried' = Append(tried, Ran("sweep", found))
       ELSE UNCHANGED <<local_path, tried>>
    /\ pc' = "flush"
    /\ UNCHANGED <<comp, dl_data, fs, listing, ending, execVars, parseVars, schedVars, linkVars, mainVars>>

\* lines 345-352: raw-content flush.  open() creates the file; write() raises
\* TypeError when body is neither str nor bytes.
ResolveFlush ==
    /\ comp = "resolve" /\ pc = "flush"
    /\ LET body == NodeGet(dl_data, "body")
           outp == Join(DOWNLOAD_DIR, Rel(SYLLABUS_FILE_NAME))
       IN IF Unresolved(local_path) /\ dl_data.t = "dict" /\ NodeTruthy(body)
          THEN /\ fs' = fs \cup { AbsPath(outp).parts }
               /\ IF body.t \in {"str", "bytes"}
                  THEN /\ local_path' = AbsPath(outp)
                       /\ tried' = Append(tried, Ran("flush", AbsPath(outp)))
                       /\ pc' = "check"
                       /\ UNCHANGED ending
                  ELSE /\ ending' = "crash" /\ pc' = "done"
                       /\ tried' = Append(tried, Ran("flush", NoPath))
                       /\ UNCHANGED local_path
          ELSE /\ pc' = "check"
               /\ UNCHANGED <<fs, local_path, tried, ending>>
    /\ UNCHANGED <<comp, dl_data, listing, execVars, parseVars, schedVars, linkVars, mainVars>>

\* lines 354-359: NotFound is fatal, otherwise the path is used
ResolveCheck ==
    /\ comp = "resolve" /\ pc = "check"
    /\ ending' = IF local_path = NoPath \/ ~Exists(fs, local_path)
                  THEN "notfound" ELSE "found"
    /\ pc' = "done"
    /\ UNCHANGED <<comp, dl_data, fs, listing, local_path, tried, execVars, parseVars, schedVars, linkVars, mainVars>>

NextResolve ==
    \/ ResolveProbe
    \/ ResolveSearch
    \/ ResolveSweep
    \/ ResolveFlush
    \/ ResolveCheck

(***************************************************************************)
(* Connection snapshot and linking of main (lines 213-256)                 *)
(***************************************************************************)
\* lines 230, 237, 244: the three services, in the order main links them
Services == <<"google_drive", "notion", "google_calendar">>
ServiceSet == { Services[i] : i \in DOMAIN Services }

\* JSON values a stored token can have, and the object the linker returns
JStr(v) == [t |-> "str", v |-> v]
JNull == [t |-> "null", v |-> ""]
Account(svc) == [t |-> "ConnectedAccount", v |-> svc]
StoredTokens == { JStr("old"), JNull }

\* line 56, json.dump(..., default=str): a value json cannot encode is
\* replaced by its str()
DumpToken(tok) == IF tok.t \in {"str", "null"} THEN tok ELSE JStr(tok.v)

\* the value under the key "connections": absent, a mapping from services to
\* tokens, or a JSON value of another type
NoMap == [svc \in {} |-> JNull]
ConnsOf(t, m) == [t |-> t, m |-> m]
ConnsMissing == ConnsOf("missing", NoMap)
ConnsShapes ==
    { ConnsOf(t, NoMap) : t \in {"missing", "null", "list", "str"} }
    \cup { ConnsOf("dict", m) : m \in UNION { [K -> StoredTokens] : K \in SUBSET ServiceSet } }

\* the content of the connections file: absent, not JSON, or a JSON value;
\* a mapping has a user_id ("" when it has none), may have further keys
\* (extra) and has the value under "connections"
FileOf(kind, uid, extra, conns) ==
    [kind |-> kind, user_id |-> uid, extra |-> extra, conns |-> conns]
EmptyDict == FileOf("dict", "", FALSE, ConnsMissing)
Snapshots ==
    { FileOf(kind, "", FALSE, ConnsMissing) : kind \in {"absent", "garbage", "list", "null"} }
    \cup { FileOf("dict", uid, extra, c) :
              uid \in {"", "u_file"}, extra \in BOOLEAN, c \in ConnsShapes }

\* lines 214-221: connections after the load; a missing or unparseable file
\* leaves {}
Loaded(file) == IF file.kind \in {"absent", "garbage"} THEN EmptyDict ELSE file

\* line 223: the first truthy of the stored id, the environment's id, a new uuid
UserId(stored_id, env_id) ==
    IF stored_id # "" THEN stored_id ELSE IF env_id # "" THEN env_id ELSE "u_new"

\* line 229: connections.setdefault("connections", {})
SetDefault(c) == IF c.t = "missing" THEN ConnsOf("dict", NoMap) ELSE c

\* `svc not in connections["connections"]`: raises TypeError on None
InRaises(c) == c.t = "null"
KeyPresent(c, svc) == c.t = "dict" /\ svc \in DOMAIN c.m

\* lines 231, 238, 245: the condition under which the linker is invoked
NeedsLink_IgnoreKey(c, svc, configured) == svc \in configured
NeedsLink(c, svc, configured) == ~KeyPresent(c, svc) /\ svc \in configured

\* lines 233, 240, 247: connections["connections"][svc] = conn raises
\* TypeError unless the value is a mapping
SetItemRaises(c) == c.t # "dict"
SetItem(c, svc, tok) ==
    ConnsOf("dict", [s \in DOMAIN c.m \cup {svc} |-> IF s = svc THEN tok ELSE c.m[s]])

\* lines 54-56 with the argument of lines 234, 241, 248, 255, 413: the file is
\* overwritten with {"user_id": user_id, "connections": connections["connections"]}
save_json_Skip(file, uid, c) == file
save_json(file, uid, c) ==
    FileOf("dict", uid, FALSE, ConnsOf(c.t, [s \in DOMAIN c.m |-> DumpToken(c.m[s])]))

Decision(svc, present, configured, invoked, linked) ==
    [svc |-> svc, present |-> present, configured |-> configured,
     invoked |-> invoked, linked |-> linked]

InitLinkVars ==
    /\ snapshot = EmptyDict
    /\ stored = EmptyDict
    /\ connections = EmptyDict
    /\ user_id = ""
    /\ env_user_id = ""
    /\ auth_configs = {}
    /\ svc_idx = 1
    /\ decisions = <<>>
    /\ exit_status = "run"

\* lines 213-221: load or create the connections file
LoadSnapshot ==
    /\ comp \in {"link", "main"} /\ pc = "load"
    /\ connections' = Loaded(stored)
    /\ pc' = "user"
    /\ UNCHANGED <<comp, snapshot, stored, user_id, env_user_id, auth_configs, svc_idx,
                   decisions, exit_status, execVars, parseVars, schedVars, resolveVars, mainVars>>

\* lines 223-229: connections.get raises AttributeError unless connections is
\* a mapping; nothing catches it
ChooseUser ==
    /\ comp \in {"link", "main"} /\ pc = "user"
    /\ IF connections.kind # "dict"
       THEN /\ exit_status' = "traceback" /\ pc' = "exited"
            /\ UNCHANGED <<user_id, connections>>
       ELSE /\ user_id' = UserId(connections.user_id, env_user_id)
            /\ connections' = [connections EXCEPT !.conns = SetDefault(@)]
            /\ pc' = "link"
            /\ UNCHANGED exit_status
    /\ UNCHANGED <<comp, snapshot, stored, env_user_id, auth_configs, svc_idx, decisions,
                   execVars, parseVars, schedVars, resolveVars, mainVars>>

\* lines 230-253: one linking step.  The linker returns an account or raises;
\* every exception inside the try ends the run with sys.exit(1).
LinkStep ==
    /\ comp \in {"link", "main"} /\ pc = "link"
    /\ \E returns \in BOOLEAN :
         LET svc == Services[svc_idx]
             c == connections.conns
             nextpc == IF svc_idx = Len(Services) THEN "save" ELSE "link"
         IN IF InRaises(c)
            THEN /\ exit_status' = "exit1" /\ pc' = "exited"
                 /\ UNCHANGED <<connections, stored, decisions, svc_idx>>
            ELSE IF ~NeedsLink(c, svc, auth_configs)
            THEN /\ decisions' = Append(decisions,
                        Decision(svc, KeyPresent(c, svc), svc \in auth_configs, FALSE, FALSE))
                 /\ pc' = nextpc
                 /\ svc_idx' = IF svc_idx = Len(Services) THEN svc_idx ELSE svc_idx + 1
                 /\ UNCHANGED <<connections, stored, exit_status>>
            ELSE /\ decisions' = Append(decisions,
                        Decision(svc, KeyPresent(c, svc), svc \in auth_configs, TRUE, returns))
                 /\ IF ~returns \/ SetItemRaises(c)
                    THEN /\ exit_status' = "exit1" /\ pc' = "exited"
                         /\ UNCHANGED <<connections, stored, svc_idx>>
                    ELSE /\ connections' = [connections EXCEPT !.conns = SetItem(c, svc, Account(svc))]
                         /\ stored' = save_json(stored, user_id, SetItem(c, svc, Account(svc)))
                         /\ pc' = nextpc
                         /\ svc_idx' = IF svc_idx = Len(Services) THEN svc_idx ELSE svc_idx + 1
                         /\ UNCHANGED exit_status
    /\ UNCHANGED <<comp, snapshot, user_id, env_user_id, auth_configs,
                   execVars, parseVars, schedVars, resolveVars, mainVars>>

\* lines 255-256: the connections are saved before the first tool call
SaveConnections ==
    /\ comp \in {"link", "main"} /\ pc = "save"
    /\ stored' = save_json(stored, user_id, connections.conns)
    /\ pc' = "find"
    /\ UNCHANGED <<comp, snapshot, connections, user_id, env_user_id, auth_configs, svc_idx,
                   decisions, exit_status, execVars, parseVars, schedVars, resolveVars, mainVars>>

NextLink ==
    \/ LoadSnapshot
    \/ ChooseUser
    \/ LinkStep
    \/ SaveConnections

InitMainVars ==
    /\ notion_db = FALSE
    /\ start_cfg = "unset"
    /\ plan = 0
    /\ steps = <<>>

(***************************************************************************)
(* The pipeline of main after linking (lines 258-413)                      *)
(***************************************************************************)
\* the most lessons parse_lessons returns in the runs explored
MaxPlan == 2

\* what a tool call can return to main: find-file with ok falsy, with no
\* file, with a first file that is not a mapping, or with a file
FindOutcomes == {"notok", "nofiles", "badmeta", "ok"}
DownloadOutcomes == {"notok", "ok"}
\* how artifact resolution ends (lines 292-357)
ResolveOutcomes == {"found", "notfound", "crash"}
ExtractOutcomes == {"text", "raises"}
\* the envelopes execute_tool returns for a write: ok, the remote's ok=False,
\* the fatal envelope of line 112, the exhausted envelope of line 113
WriteOutcomes == {"ok", "notok", "fatal", "exhausted"}

Step(op, k, out) == [op |-> op, k |-> k, out |-> out]

\* how many steps named op were taken
Count(log_, op) == Cardinality({ i \in DOMAIN log_ : log_[i].op = op })

\* the outcomes after which main calls sys.exit(1): lines 264-266, 276-278,
\* 286-288, 354-357, 365-367, 370-372
Fatal_Never(op, out) == FALSE
Fatal(op, out) ==
    \/ op = "find" /\ out \in {"notok", "nofiles"}
    \/ op = "download" /\ out = "notok"
    \/ op = "resolve" /\ out = "notfound"
    \/ op = "extract" /\ out = "raises"
    \/ op = "parse" /\ out = "none"

\* the outcomes after which an exception nothing catches ends main: line 280
\* (file_meta.get on a non-mapping), lines 299 and 351 (resolution), lines
\* 392-397 (a START_DATE or START_TIME that does not parse)
Raises(op, out) ==
    \/ op = "find" /\ out = "badmeta"
    \/ op = "resolve" /\ out = "crash"
    \/ op = "anchor" /\ out = "invalid"

\* lines 380-384 and 406-409: a failed write is logged and the loop goes on
AfterWrite_Abort(out, nextpc) == IF out = "ok" THEN nextpc ELSE "exited"
AfterWrite(out, nextpc) == nextpc

\* line 378: the loop over lessons; k rows are written before this one
AfterInserts_Interleave(k, n) == "anchor"
AfterInserts(k, n) == IF k + 1 < n THEN "insert" ELSE "anchor"

\* line 401: the loop over lessons; k events are created before this one
AfterEvents(k, n) == IF k + 1 < n THEN "event" ELSE "final"

\* a step of the pipeline, with what follows it
Take(op, k, out, nextpc) ==
    /\ steps' = Append(steps, Step(op, k, out))
    /\ IF Fatal(op, out)
       THEN exit_status' = "exit1" /\ pc' = "exited"
       ELSE IF Raises(op, out)
       THEN exit_status' = "traceback" /\ pc' = "exited"
       ELSE pc' = nextpc /\ UNCHANGED exit_status

pipelineFrame == <<comp, snapshot, connections, user_id, env_user_id, auth_configs,
                   svc_idx, decisions, notion_db, start_cfg,
                   execVars, parseVars, schedVars, resolveVars>>

\* lines 261-281: find the file in Drive
MainFind ==
    /\ comp = "main" /\ pc = "find"
    /\ \E out \in FindOutcomes : Take("find", 0, out, "download")
    /\ UNCHANGED <<pipelineFrame, stored, plan>>

\* lines 283-289: download it
MainDownload ==
    /\ comp = "main" /\ pc = "download"
    /\ \E out \in DownloadOutcomes : Take("download", 0, out, "resolve")
    /\ UNCHANGED <<pipelineFrame, stored, plan>>

\* lines 291-359: locate the downloaded file
MainResolve ==
    /\ comp = "main" /\ pc = "resolve"
    /\ \E out \in ResolveOutcomes : Take("resolve", 0, out, "extract")
    /\ UNCHANGED <<pipelineFrame, stored, plan>>

\* lines 362-367: extract the text
MainExtract ==
    /\ comp = "main" /\ pc = "extract"
    /\ \E out \in ExtractOutcomes : Take("extract", 0, out, "parse")
    /\ UNCHANGED <<pipelineFrame, stored, plan>>

\* lines 369-376, 386-387: parse the lessons; without NOTION_DATABASE_ID the
\* rows are skipped
MainParse ==
    /\ comp = "main" /\ pc = "parse"
    /\ \E n \in 0..MaxPlan :
         /\ plan' = n
         /\ Take("parse", n, IF n = 0 THEN "none" ELSE "lessons",
                 IF notion_db THEN "insert" ELSE "anchor")
    /\ UNCHANGED <<pipelineFrame, stored>>

\* lines 378-385: one Notion row
MainInsert ==
    /\ comp = "main" /\ pc = "insert"
    /\ LET k == Count(steps, "insert")
       IN \E out \in WriteOutcomes :
            Take("insert", k, out, AfterWrite(out, AfterInserts(k, plan)))
    /\ UNCHANGED <<pipelineFrame, stored, plan>>

\* lines 390-398: the anchor of the schedule
MainAnchor ==
    /\ comp = "main" /\ pc = "anchor"
    /\ Take("anchor", 0, start_cfg, "event")
    /\ UNCHANGED <<pipelineFrame, stored, plan>>

\* lines 401-410: one calendar event
MainEvent ==
    /\ comp = "main" /\ pc = "event"
    /\ LET k == Count(steps, "event")
       IN \E out \in WriteOutcomes :
            Take("event", k, out, AfterWrite(out, AfterEvents(k, plan)))
    /\ UNCHANGED <<pipelineFrame, stored, plan>>

\* lines 412-413: the normal end
MainFinish ==
    /\ comp = "main" /\ pc = "final"
    /\ stored' = save_json(stored, user_id, connections.conns)
    /\ exit_status' = "exit0"
    /\ pc' = "end"
    /\ UNCHANGED <<pipelineFrame, plan, steps>>

NextMain ==
    \/ NextLink
    \/ MainFind
    \/ MainDownload
    \/ MainResolve
    \/ MainExtract
    \/ MainParse
    \/ MainInsert
    \/ MainAnchor
    \/ MainEvent
    \/ MainFinish

InitRestVars == InitResolveVars /\ InitLinkVars /\ InitMainVars

(***************************************************************************)
(* Specifications                                                          *)
(***************************************************************************)
InitExec ==
    /\ comp = "exec" /\ pc = "idle"
    /\ InitExecVars /\ InitParseVars /\ InitSchedVars /\ InitRestVars

InitParse ==
    /\ comp = "parse" /\ pc = "start"
    /\ text \in Texts
    /\ max_lessons \in (1..MaxCount) \cup {MAX_LESSONS}
    /\ lessons = <<>>
    /\ usedFallback = FALSE
    /\ InitExecVars /\ InitSchedVars /\ InitRestVars

InitSched ==
    /\ comp = "sched" /\ pc = "start"
    /\ start_date \in StartDates
    /\ now \in Nows
    /\ start_time \in StartTimes
    /\ timezone \in TimeZones
    /\ sched \in { LessonTitles(n) : n \in 1..MaxSched }
    /\ dt0 = NoDateTime
    /\ events = <<>>
    /\ InitExecVars /\ InitParseVars /\ InitRestVars

SpecExec == InitExec /\ [][NextExec]_vars
SpecParse == InitParse /\ [][NextParse]_vars
SpecSched == InitSched /\ [][NextSched]_vars

InitResolve ==
    /\ comp = "resolve" /\ pc = "probe"
    /\ dl_data \in Payloads
    /\ fs \in FileSets
    /\ listing \in {"asc", "desc"}
    /\ local_path = NoPath
    /\ tried = <<>>
    /\ ending = "none"
    /\ InitExecVars /\ InitParseVars /\ InitSchedVars /\ InitLinkVars /\ InitMainVars
SpecResolve == InitResolve /\ [][NextResolve]_vars

InitLink ==
    /\ comp = "link" /\ pc = "load"
    /\ snapshot \in Snapshots
    /\ stored = snapshot
    /\ connections = EmptyDict
    /\ user_id = ""
    /\ env_user_id \in {"", "u_env"}
    /\ auth_configs \in SUBSET ServiceSet
    /\ svc_idx = 1
    /\ decisions = <<>>
    /\ exit_status = "run"
    /\ InitExecVars /\ InitParseVars /\ InitSchedVars /\ InitResolveVars /\ InitMainVars
SpecLink == InitLink /\ [][NextLink]_vars

\* the runs of the whole of main start from no snapshot or from a snapshot
\* with every service linked, with every auth-config id set or none
InitMain ==
    /\ comp = "main" /\ pc = "load"
    /\ snapshot \in { FileOf("absent", "", FALSE, ConnsMissing),
                      FileOf("dict", "u_file", FALSE,
                             ConnsOf("dict", [svc \in ServiceSet |-> JStr("old")])) }
    /\ stored = snapshot
    /\ connections = EmptyDict
    /\ user_id = ""
    /\ env_user_id = ""
    /\ auth_configs \in {{}, ServiceSet}
    /\ svc_idx = 1
    /\ decisions = <<>>
    /\ exit_status = "run"
    /\ notion_db \in BOOLEAN
    /\ start_cfg \in {"unset", "valid", "invalid"}
    /\ plan = 0
    /\ steps = <<>>
    /\ InitExecVars /\ InitParseVars /\ InitSchedVars /\ InitResolveVars
SpecMain == InitMain /\ [][NextMain]_vars
\* main is one sequential thread: a step that can be taken is taken
SpecMainFair == SpecMain /\ WF_vars(NextMain)

Init == InitExec \/ InitParse \/ InitSched \/ InitResolve \/ InitLink \/ InitMain
Next == NextExec \/ NextParse \/ NextSched \/ NextResolve \/ NextMain
Spec == Init /\ [][Next]_vars

(***************************************************************************)
(* Properties of execute_tool                                              *)
(***************************************************************************)
ExecReturned == comp = "exec" /\ pc = "done"
LastLog == log[Len(log)]
\* the classes of error the except clauses tell apart: TypeError is the
\* signature-mismatch class, every other Exception is not
RaisedTypeError(e) == e.exc = "TypeError"
RaisedOther(e) == e.exc = "Exception"

\* C1: the strategies are tried in list order, each at most once: when the
\* first k invoked strategies (k = 0..5) each raised an error of the
\* signature-mismatch class and the next one returned, the invoked strategies
\* are exactly 1..k+1 in that order, the call has returned, and its result is
\* the normalized value that strategy k+1 returned.
C1_OrderedFirstSuccess ==
    (comp = "exec" /\ log # <<>> /\ LastLog.outcome = "returned")
    => /\ \A i \in DOMAIN log : log[i].form = i
       /\ \A i \in 1..(Len(log) - 1) : RaisedTypeError(log[i])
       /\ Len(log) <= Len(forms)
       /\ pc = "done"
       /\ result = NormalizeResponse(LastLog.ret)
       /\ resp = LastLog.ret

\* witness of C1: two strategies mismatched, the third returned
C1_Witness ==
    /\ ExecReturned /\ Len(log) = 3
    /\ log[1].outcome = "signature_mismatch" /\ log[2].outcome = "signature_mismatch"
    /\ log[3].outcome = "returned"
    /\ result.data = PyPayload

\* C2: a strategy (the first, or a later one reached after mismatches) that
\* raises an error outside the signature-mismatch class ends the call at once:
\* it is the last strategy invoked, and the call has returned ok = False,
\* data = None and an error message that is not None.
C2_FatalStopsImmediately ==
    \A i \in DOMAIN log :
        RaisedOther(log[i])
        => /\ i = Len(log)
           /\ pc = "done"
           /\ result.ok = PyFalse
           /\ result.data = PyNone
           /\ result.error # PyNone /\ result.error.t = "str" /\ result.error.s # <<>>

\* witness of C2: a fatal error on a strategy reached after two mismatches
C2_Witness ==
    /\ ExecReturned /\ Len(log) = 3
    /\ RaisedTypeError(log[1]) /\ RaisedTypeError(log[2]) /\ RaisedOther(log[3])
    /\ result.ok = PyFalse

\* C3: every returned envelope has ok = False exactly when error is not None.
C3_OkIffNoError ==
    ExecReturned => ((result.ok = PyFalse) <=> (result.error # PyNone))

\* C4: a remote operation that ran and failed, whatever the class of its error,
\* ends the call with ok = False and no further strategy is tried, so the
\* remote operation runs at most once per call.
C4_RemoteFailureNotRetried ==
    /\ Cardinality({ i \in DOMAIN log : log[i].ran }) <= 1
    /\ ExecReturned
       => \A i \in DOMAIN log :
             (log[i].ran /\ log[i].outcome # "returned")
             => (i = Len(log) /\ result.ok = PyFalse)

\* the message line 113 is expected to build, from what the strategies raised
RECURSIVE C5_RenderLog(_)
C5_RenderLog(l) ==
    IF l = <<>> THEN <<>>
    ELSE <<"(", "TypeError">> \o Head(l).msg.s \o <<")">> \o C5_RenderLog(Tail(l))

\* C5: when every strategy raised an error of the signature-mismatch class,
\* the call returns ok = False, data = None and a message holding the last
\* diagnostic and one entry per strategy, six in all, in attempt order.
C5_ExhaustedEnumeratesAll ==
    (ExecReturned /\ Len(log) = Len(forms) /\ \A i \in DOMAIN log : RaisedTypeError(log[i]))
    => /\ result.ok = PyFalse
       /\ result.data = PyNone
       /\ Len(attempts) = 6
       /\ \A i \in DOMAIN forms : attempts[i] = <<"TypeError">> \o log[i].msg.s
       /\ result.error =
            PyStr(<<"All execute attempts failed. Last TypeError: ">>
                  \o log[Len(forms)].msg.s \o <<"; attempts: ">> \o C5_RenderLog(log))

\* witness of C5: all six strategies were rejected for their calling convention
C5_Witness ==
    /\ ExecReturned /\ Len(log) = 6
    /\ \A i \in DOMAIN log : log[i].outcome = "signature_mismatch"

\* the facets with the documented defaults: successful = True, data = the
\* whole response, error = None
C6_Defaults(r) ==
    [ ok |-> IF r.successful = Missing THEN PyTrue ELSE r.successful,
      data |-> IF r.data = Missing THEN WholeResp ELSE r.data,
      error |-> IF r.error = Missing THEN PyNone ELSE r.error ]

\* C6: a mapping and an object carrying the same three facets normalize to the
\* same envelope, the one the documented defaults give.
C6_MappingObjectAgree ==
    (ExecReturned /\ LastLog.outcome = "returned")
    => /\ result = C6_Defaults(resp)
       /\ NormalizeResponse([resp EXCEPT !.kind = "mapping"])
            = NormalizeResponse([resp EXCEPT !.kind = "object"])

(***************************************************************************)
(* Properties of parse_lessons                                             *)
(***************************************************************************)
ParseReturned == comp = "parse" /\ pc = "done"
\* the non-blank lines of the text that match the "Week <integer>" pattern,
\* in document order
HeaderLines == SelectSeq(StrippedLines(text), StartsHeader)

\* C7: with at least one header line and max_lessons >= 1, the returned list
\* holds one record per header line, in header order, cut to the first
\* max_lessons headers, and the equal-chunk branch never runs.
C7_OneRecordPerHeader ==
    (comp = "parse" /\ Len(HeaderLines) >= 1 /\ max_lessons >= 1)
    => /\ ~usedFallback
       /\ pc = "done"
          => /\ Len(lessons) = Min(Len(HeaderLines), max_lessons)
             /\ \A k \in 1..Len(lessons) :
                   lessons[k].title
                     = SubSeq(HeaderLines[k], 1, WeekPrefixEnd(HeaderLines[k]))

\* witness of C7: three header lines, cut to two records
C7_Witness ==
    /\ ParseReturned /\ Len(HeaderLines) = 3 /\ max_lessons = 2
    /\ Len(lessons) = 2 /\ lessons[1].title # lessons[2].title

\* positions of the header lines among the non-blank lines
C8_HeaderIdx == { i \in 1..Len(StrippedLines(text)) : StartsHeader(StrippedLines(text)[i]) }
\* position of the k-th header line
C8_Kth(k) == CHOOSE i \in C8_HeaderIdx : Cardinality({ j \in C8_HeaderIdx : j < i }) = k - 1
\* position of the header line after position i, or one past the last line
C8_Following(i) ==
    IF \E j \in C8_HeaderIdx : j > i
    THEN CHOOSE j \in C8_HeaderIdx : j > i /\ \A h \in C8_HeaderIdx : h > i => j <= h
    ELSE Len(StrippedLines(text)) + 1
\* what a record's body is expected to be: the header's trailing text, if any,
\* then the lines up to the following header, joined by single spaces
C8_Body(i) ==
    LET L == StrippedLines(text)
        trailing == MatchHeader(L[i]).rem
    IN JoinSp((IF trailing = <<>> THEN <<>> ELSE <<trailing>>)
              \o [ t \in 1..(C8_Following(i) - i - 1) |-> L[i + t] ])

\* C8: in the header strategy each record's title is the non-empty
\* "Week <integer>" part of its header line and its body is the header's
\* trailing text followed by every non-blank, non-header line up to the next
\* header line, space-joined in document order.  "Week 1: Intro / Hello /
\* Week 2: Loops / World" with max_lessons = 12 gives ("Week 1", "Intro Hello")
\* and ("Week 2", "Loops World").
C8_TitleAndBody ==
    (ParseReturned /\ ~usedFallback)
    => /\ \A k \in 1..Len(lessons) :
             /\ lessons[k].title # <<>>
             /\ lessons[k].title
                  = SubSeq(StrippedLines(text)[C8_Kth(k)], 1,
                           WeekPrefixEnd(StrippedLines(text)[C8_Kth(k)]))
             /\ lessons[k].body = C8_Body(C8_Kth(k))
       /\ (text = ScenarioText /\ max_lessons = 12)
          => lessons = << [title |-> <<"Week", " ", "1">>,
                           body |-> <<"Intro", " ", "Hello">>],
                          [title |-> <<"Week", " ", "2">>,
                           body |-> <<"Loops", " ", "World">>] >>

\* witness of C8: the example document has been segmented
C8_Witness ==
    /\ ParseReturned /\ text = ScenarioText /\ max_lessons = 12
    /\ Len(lessons) = 2 /\ lessons[2].body = <<"Loops", " ", "World">>

\* the words of the bodies of the records k.., one body after the other
RECURSIVE C9_BodyWords(_)
C9_BodyWords(ls) ==
    IF ls = <<>> THEN <<>> ELSE Split(Head(ls).body) \o C9_BodyWords(Tail(ls))

\* C9: with no header line, at least one word and max_lessons >= 1, the
\* equal-chunk branch returns exactly max_lessons records titled "Week 1" ..
\* "Week max_lessons" whose bodies, read in order, are the words of the text,
\* none dropped or repeated; the last record holds everything from the last
\* computed boundary to the end.
C9_FallbackReconstructs ==
    (ParseReturned /\ Len(HeaderLines) = 0 /\ Len(TextWords(text)) >= 1 /\ max_lessons >= 1)
    => /\ usedFallback
       /\ Len(lessons) = max_lessons
       /\ \A k \in 1..Len(lessons) : lessons[k].title = <<"Week", " ", ToString(k)>>
       /\ C9_BodyWords(lessons) = TextWords(text)
       /\ LET total == Len(TextWords(text))
              chunk == IF total \div max_lessons >= 1 THEN total \div max_lessons ELSE 1
              first == (max_lessons - 1) * chunk
          IN Split(lessons[max_lessons].body)
               = [ t \in 1..(IF total > first THEN total - first ELSE 0) |->
                     TextWords(text)[first + t] ]

\* witness of C9: five words cut into three chunks (1, 1 and 3 words)
C9_Witness ==
    /\ ParseReturned /\ usedFallback
    /\ Len(TextWords(text)) = 5 /\ max_lessons = 3
    /\ Len(Split(lessons[3].body)) = 3

\* further cases of C9 that the bounds reach: more chunks than words, and as
\* many chunks as words
C9_WitnessMoreChunksThanWords ==
    /\ ParseReturned /\ usedFallback
    /\ Len(TextWords(text)) = 2 /\ max_lessons = 12 /\ Len(lessons) = 12

(***************************************************************************)
(* Properties of the scheduling loop                                       *)
(***************************************************************************)
\* days from 0001-01-01 to the given date, by the closed formula of the
\* proleptic Gregorian calendar
C10_Ordinal(date) ==
    LET y == date[1]
        m == date[2]
        d == date[3]
        leap == y % 4 = 0 /\ (y % 100 # 0 \/ y % 400 = 0)
        before == <<0, 31, 59, 90, 120, 151, 181, 212, 243, 273, 304, 334>>
    IN 365 * (y - 1) + ((y - 1) \div 4) - ((y - 1) \div 100) + ((y - 1) \div 400)
       + before[m] + (IF m > 2 /\ leap THEN 1 ELSE 0) + d

\* the date the schedule is anchored at
C10_AnchorDate ==
    IF start_date.kind = "unset" THEN <<now.y, now.m, now.d>>
    ELSE <<start_date.at.y, start_date.at.m, start_date.at.d>>

\* seconds from midnight of the anchor date to a formatted timestamp
C10_Seconds(iso) ==
    (C10_Ordinal(iso.date) - C10_Ordinal(C10_AnchorDate)) * 86400
    + iso.time[1] * 3600 + iso.time[2] * 60 + iso.time[3]

\* C10: the k-th lesson (0-indexed) is scheduled at anchor + k weeks, in lesson
\* order: adjacent timestamps differ by exactly one week, every timestamp has
\* the time of day START_TIME with seconds 0, and TIMEZONE is passed unchanged
\* with every event.  Anchor 2024-01-08, 09:00, two lessons: 2024-01-08T09:00:00
\* and 2024-01-15T09:00:00.
C10_WeeklySchedule ==
    comp = "sched"
    => /\ \A k \in 1..Len(events) :
             /\ events[k].summary = sched[k]
             /\ C10_Ordinal(events[k].start_datetime.date)
                  = C10_Ordinal(C10_AnchorDate) + 7 * (k - 1)
             /\ events[k].start_datetime.time = <<start_time[1], start_time[2], 0>>
             /\ events[k].start_datetime.frac = <<>>
             /\ events[k].timezone = timezone
       /\ \A k \in 1..(Len(events) - 1) :
             C10_Seconds(events[k + 1].start_datetime)
               - C10_Seconds(events[k].start_datetime) = 604800
       /\ (/\ start_date = [kind |-> "date", at |-> DateTime(2024, 1, 8, 0, 0, 0, 0)]
           /\ start_time = <<9, 0>>
           /\ Len(events) >= 2)
          => /\ events[1].start_datetime
                  = [date |-> <<2024, 1, 8>>, time |-> <<9, 0, 0>>, frac |-> <<>>]
             /\ events[2].start_datetime
                  = [date |-> <<2024, 1, 15>>, time |-> <<9, 0, 0>>, frac |-> <<>>]

\* witness of C10: the scenario anchor with two lessons, both events created
C10_Witness ==
    /\ comp = "sched" /\ pc = "done"
    /\ start_date = [kind |-> "date", at |-> DateTime(2024, 1, 8, 0, 0, 0, 0)]
    /\ start_time = <<9, 0>> /\ timezone = "UTC"
    /\ Len(sched) = 2 /\ Len(events) = 2
    /\ events[2].start_datetime.date = <<2024, 1, 15>>

\* a schedule that crosses the end of February of a leap year and one that
\* starts from now() with seconds and microseconds set are reached as well
C10_WitnessLeapFebruary ==
    /\ comp = "sched" /\ Len(events) = 2
    /\ events[1].start_datetime.date = <<2024, 2, 26>>
    /\ events[2].start_datetime.date = <<2024, 3, 4>>

(***************************************************************************)
(* Properties of artifact resolution                                       *)
(***************************************************************************)
\* position of a strategy in the documented order
C11_Order(strategy) ==
    CASE strategy = "probe" -> 1 [] strategy = "search" -> 2
      [] strategy = "sweep" -> 3 [] strategy = "flush" -> 4

\* C11: the four strategies run in the order probe, search, sweep, flush; a
\* strategy runs only if every earlier one produced no path; the first path
\* produced is the result.  A payload {"path": "syllabus.pdf"} with
\* syllabus.pdf in the download directory resolves to that file's absolute
\* path and the sweep does not run; the flush never writes a file after an
\* earlier strategy found a path.
C11_OrderedFirstHit ==
    comp = "resolve"
    => /\ \A i, j \in DOMAIN tried :
             i < j => /\ C11_Order(tried[i].strategy) < C11_Order(tried[j].strategy)
                      /\ tried[i].produced = NoPath
       /\ \A i \in DOMAIN tried :
             tried[i].produced # NoPath => local_path = tried[i].produced
       /\ (\A i \in DOMAIN tried : tried[i].strategy # "flush")
             => \A f \in fs : f \in FileCandidates
       /\ (/\ pc = "done"
           /\ dl_data = VDict(<<KV("path", VStr(Rel("syllabus.pdf")))>>)
           /\ <<"work", "downloads", "syllabus.pdf">> \in fs)
          => /\ ending = "found"
             /\ local_path = Path(TRUE, <<"work", "downloads", "syllabus.pdf">>)
             /\ tried = <<Ran("probe", local_path)>>

\* witness of C11: the documented payload resolved by the probe alone
C11_Witness ==
    /\ comp = "resolve" /\ pc = "done" /\ ending = "found"
    /\ dl_data = VDict(<<KV("path", VStr(Rel("syllabus.pdf")))>>)
    /\ <<"work", "downloads", "syllabus.pdf">> \in fs
    /\ <<"work", "downloads", "other.pdf">> \in fs
    /\ Len(tried) = 1

\* every strategy down to the flush ran, each earlier one producing nothing
C11_WitnessAllFour ==
    /\ comp = "resolve" /\ pc = "done" /\ ending = "found"
    /\ Len(tried) = 4 /\ tried[4].strategy = "flush"

\* the files below the download directory
C12_Under == { f \in fs : IsPrefix(AbsPath(DOWNLOAD_DIR).parts, f) }

\* C12: when the sweep runs it returns a file named exactly
\* SYLLABUS_FILE_NAME whenever one exists anywhere below the download
\* directory; only when there is none does it return a file with the .pdf
\* extension, which it finds at any depth.
C12_SweepPrefersExactName ==
    (comp = "resolve" /\ pc = "flush" /\ tried # <<>>
       /\ tried[Len(tried)].strategy = "sweep")
    => LET got == tried[Len(tried)].produced
       IN /\ (\E f \in C12_Under : f[Len(f)] = SYLLABUS_FILE_NAME)
             => (got.parts \in C12_Under /\ got.parts[Len(got.parts)] = SYLLABUS_FILE_NAME)
          /\ (\E f \in C12_Under : HasPdfExt(f[Len(f)]))
             => (got.parts \in C12_Under /\ HasPdfExt(got.parts[Len(got.parts)]))

\* the str values held anywhere in a payload, as mapping values or as
\* elements of sequences
RECURSIVE C13_Strings(_)
RECURSIVE C13_KidStrings(_, _)
C13_Strings(node) == C13_KidStrings(node.kids, 1)
C13_KidStrings(kids, i) ==
    IF i > Len(kids) THEN {}
    ELSE (IF kids[i].n.t = "str" THEN { kids[i].n.p } ELSE C13_Strings(kids[i].n))
         \cup C13_KidStrings(kids, i + 1)

\* C13: when the structural search runs and some str value of the payload, at
\* any nesting, ends with .pdf and names an existing path as given or relative
\* to the download directory, the search returns an existing absolute path.
C13_SearchFindsAnyString ==
    (comp = "resolve" /\ pc = "sweep" /\ tried # <<>>
       /\ tried[Len(tried)].strategy = "search"
       /\ \E q \in C13_Strings(dl_data) :
             /\ EndsWithPdf(q)
             /\ (Exists(fs, q) \/ Exists(fs, Join(DOWNLOAD_DIR, q))))
    => LET got == tried[Len(tried)].produced
       IN got # NoPath /\ got.abs /\ Exists(fs, got)

\* C18: for every payload resolution ends with an existing absolute path or
\* with NotFound, never with an unhandled error.
C18_ResolutionTotal ==
    (comp = "resolve" /\ pc = "done")
    => \/ ending = "notfound"
       \/ ending = "found" /\ local_path.abs /\ Exists(fs, local_path)

(***************************************************************************)
(* Properties of the connection snapshot and linking                       *)
(***************************************************************************)
\* what a full overwrite with the in-memory record leaves in the file
C16_Image ==
    FileOf("dict", user_id, FALSE,
           ConnsOf(connections.conns.t,
                   [s \in DOMAIN connections.conns.m |-> DumpToken(connections.conns.m[s])]))

\* the linking steps of this run that returned an account and stored it
C16_Completed ==
    { i \in DOMAIN decisions :
        decisions[i].linked /\ (i < Len(decisions) \/ exit_status = "run") }

\* C16: after each successful linking step, before the next linking step or
\* any tool call starts, the stored snapshot is a full overwrite holding the
\* in-memory user_id and connections (as json encodes them); when a later
\* linking failure ends the run, every link completed before it is in the
\* stored snapshot.
C16_PersistedAfterEveryLink ==
    comp = "link"
    => /\ (exit_status = "run" /\ pc \in {"link", "save"} /\ decisions # <<>>
             /\ decisions[Len(decisions)].linked)
          => stored = C16_Image
       /\ pc = "find" => stored = C16_Image
       /\ exit_status = "exit1"
          => \A i \in C16_Completed :
                /\ stored.kind = "dict" /\ stored.conns.t = "dict"
                /\ decisions[i].svc \in DOMAIN stored.conns.m
                /\ stored.conns.m[decisions[i].svc] = DumpToken(Account(decisions[i].svc))
                /\ stored.user_id = user_id /\ ~stored.extra

\* witness of C16: the first link was stored over a file that had its own
\* user-less content and further keys, then the second linker call failed
C16_Witness ==
    /\ comp = "link" /\ exit_status = "exit1"
    /\ snapshot.kind = "dict" /\ snapshot.extra /\ snapshot.user_id = ""
    /\ Len(decisions) = 2 /\ decisions[1].linked /\ ~decisions[2].linked
    /\ DOMAIN stored.conns.m = {"google_drive", "google_calendar"}

\* snapshots that are absent, unparseable, or parseable with a wrong shape
C17_Unusable ==
    \/ snapshot.kind # "dict"
    \/ snapshot.conns.t \notin {"missing", "dict"}

\* C17: whatever is wrong with the snapshot file (absent, unparseable, not a
\* mapping, connections not a mapping) the run reaches the first linking step
\* with empty connections, and neither exits nor raises because of it.
C17_SnapshotReadNeverFatal ==
    (comp = "link" /\ C17_Unusable /\ pc \notin {"load", "user"})
    => /\ exit_status # "traceback"
       /\ (pc = "link" /\ decisions = <<>>) => connections.conns = ConnsOf("dict", NoMap)
       /\ exit_status = "exit1"
          => (decisions # <<>> /\ ~decisions[Len(decisions)].linked)

\* C19 as stated, for an absent or well-formed snapshot: the linker is invoked
\* exactly when the service's key is absent from the loaded connections
C19_LinkIffKeyAbsent ==
    (comp = "link" /\ (snapshot.kind = "absent" \/ ~C17_Unusable))
    => \A i \in DOMAIN decisions : decisions[i].invoked <=> ~decisions[i].present

\* C19, amended: for every linking step that decides, the linker is invoked
\* exactly when the service's key is absent from the loaded connections and
\* the service's auth-config id is set; a service whose key is present is
\* never re-linked, whatever its stored token is; when the membership test
\* itself raises, no linker is invoked.
C19_LinkIffAbsentAndConfigured ==
    comp = "link"
    => /\ \A i \in DOMAIN decisions :
             LET d == decisions[i]
             IN /\ d.svc = Services[i]
                /\ d.present <=> KeyPresent(Loaded(snapshot).conns, d.svc)
                /\ d.configured <=> d.svc \in auth_configs
                /\ d.invoked <=> (~d.present /\ d.configured)
       /\ Loaded(snapshot).conns.t = "null" => decisions = <<>>

\* witness of C19: a present key with a null token is not re-linked, an absent
\* key with an auth-config id is linked, an absent key without one is not
C19_Witness ==
    /\ comp = "link" /\ pc = "find" /\ Len(decisions) = 3
    /\ snapshot.kind = "dict" /\ snapshot.conns.t = "dict"
    /\ DOMAIN snapshot.conns.m = {"google_drive"}
    /\ snapshot.conns.m["google_drive"] = JNull
    /\ ~decisions[1].invoked /\ decisions[2].invoked /\ ~decisions[3].invoked
    /\ auth_configs = {"google_drive", "notion"}

(***************************************************************************)
(* Properties of the pipeline of main                                      *)
(***************************************************************************)
\* the positions in steps of the calls of op for lesson k
C14_Calls(op, k) == { i \in DOMAIN steps : steps[i].op = op /\ steps[i].k = k }

\* NOTION_DATABASE_ID is set and the start date and time parse
C14_Configured == notion_db /\ start_cfg # "invalid"

\* parse_lessons has just returned a non-empty list, the sinks are configured
C14_Parsed ==
    /\ comp = "main" /\ C14_Configured /\ steps # <<>>
    /\ steps[Len(steps)] = Step("parse", plan, "lessons")

\* the run ended normally with one insert-row and one create-event per lesson
C14_AllWritten ==
    /\ pc = "end" /\ exit_status = "exit0"
    /\ \A k \in 0..(plan - 1) :
          /\ Cardinality(C14_Calls("insert", k)) = 1
          /\ Cardinality(C14_Calls("event", k)) = 1

\* C14: once a non-empty list of lessons is parsed and the sinks are
\* configured, every lesson eventually gets exactly one insert-row call and
\* exactly one create-event call and the run reaches its normal end, whatever
\* the outcomes of the writes; no call is ever made twice for a lesson.
C14_WriteFailuresDoNotAbort ==
    /\ C14_Parsed ~> C14_AllWritten
    /\ [](comp = "main"
          => \A k \in 0..MaxPlan :
                /\ Cardinality(C14_Calls("insert", k)) <= 1
                /\ Cardinality(C14_Calls("event", k)) <= 1)

\* witness of C14: two lessons, the first row failed fatally, the first event
\* exhausted the strategies, and both writes of the second lesson were made
C14_Witness ==
    /\ comp = "main" /\ C14_Configured /\ plan = 2 /\ C14_AllWritten
    /\ \E i \in C14_Calls("insert", 0) : steps[i].out = "fatal"
    /\ \E i \in C14_Calls("event", 0) : steps[i].out = "exhausted"
    /\ \E i \in C14_Calls("insert", 1) : steps[i].out = "notok"
    /\ \E i \in C14_Calls("event", 1) : steps[i].out = "ok"

\* the fatal conditions the claim lists
C15_IsFatal(step) ==
    \/ step.op = "find" /\ step.out \in {"notok", "nofiles"}
    \/ step.op = "download" /\ step.out = "notok"
    \/ step.op = "resolve" /\ step.out = "notfound"
    \/ step.op = "extract" /\ step.out = "raises"
    \/ step.op = "parse" /\ step.out = "none"

\* C15: a failed find-file or one without a file, a failed download-file, a
\* NotFound resolution, a failed text extraction and an empty list of lessons
\* each end the run with exit status 1 at once: no later pipeline step runs and
\* no insert-row or create-event call is made.
C15_FatalBeforeWrites ==
    comp = "main"
    => \A i \in DOMAIN steps :
          C15_IsFatal(steps[i])
          => /\ i = Len(steps)
             /\ exit_status = "exit1" /\ pc = "exited"
             /\ Count(steps, "insert") = 0 /\ Count(steps, "event") = 0

\* witness of C15: everything up to the parse succeeded, no lesson was found
C15_Witness ==
    /\ comp = "main" /\ exit_status = "exit1" /\ notion_db
    /\ Len(steps) = 5 /\ steps[5] = Step("parse", 0, "none")

\* the remote tool calls among the steps, and their place in the fixed order
C20_Remote == {"find", "download", "insert", "event"}
C20_Stage(op) ==
    CASE op = "find" -> 1 [] op = "download" -> 2 [] op = "insert" -> 3 [] op = "event" -> 4
C20_IsRemote(step) == step.op \in C20_Remote
C20_Ops(op) == SelectSeq(steps, LAMBDA step : step.op = op)

\* C20: the remote calls are find-file, download-file, insert-row for lessons
\* 0..n-1 in order, create-event for lessons 0..n-1 in order; download-file
\* follows a find-file that returned a file, no create-event precedes the last
\* insert-row, and the three linking steps and the save are complete before
\* the first call.
C20_FixedCallOrder ==
    comp = "main"
    => LET calls == SelectSeq(steps, C20_IsRemote)
       IN /\ \A i, j \in DOMAIN calls :
                i < j => /\ C20_Stage(calls[i].op) <= C20_Stage(calls[j].op)
                         /\ calls[i].op = calls[j].op => calls[i].op \in {"insert", "event"}
          /\ \A op \in {"insert", "event"} :
                \A i \in DOMAIN C20_Ops(op) : C20_Ops(op)[i].k = i - 1 /\ i <= plan
          /\ calls # <<>> => calls[1].op = "find"
          /\ Count(steps, "download") > 0 => calls[1].out = "ok"
          /\ (Count(steps, "event") > 0 /\ notion_db) => Count(steps, "insert") = plan
          /\ Count(steps, "insert") > 0 => notion_db
          /\ calls # <<>>
             => /\ Len(decisions) = Len(Services)
                /\ stored = C16_Image
          /\ pc = "end"
             => /\ Count(steps, "event") = plan
                /\ Count(steps, "download") = 1

\* witness of C20: a run that linked the three services and then made every
\* call for two lessons
C20_Witness ==
    /\ comp = "main" /\ pc = "end" /\ plan = 2 /\ notion_db
    /\ Len(decisions) = 3 /\ \A i \in 1..3 : decisions[i].linked
    /\ Len(SelectSeq(steps, C20_IsRemote)) = 6

====
